---- MODULE Spec2Model ----
(***************************************************************************)
(* Model of the session manager (AuthContext.tsx), the authentication and  *)
(* invoice API services, the invoice cache and the invoice screen's load   *)
(* orchestration of the billing client.                                    *)
(*                                                                         *)
(* Every `await` of the source is a suspension point: an action of the     *)
(* model is the code that runs from one suspension point to the next, in   *)
(* one JavaScript turn.  React 19 batches the state updates of one turn,   *)
(* so the setters called in a turn take effect together, followed by one   *)
(* render that recomputes the derived context value.                       *)
(***************************************************************************)
EXTENDS Integers, Sequences, FiniteSets, TLC

VARIABLES
  user,            \* AuthProvider state `user`      (User | null)
  tokens,          \* AuthProvider state `tokens`    (AuthTokens | null)
  loading,         \* AuthProvider state `loading`
  isAuthenticated, \* the flag exposed in the context value of the last render
  stTokens,        \* AsyncStorage entry '@auth:tokens' (string | null)
  stUser,          \* AsyncStorage entry '@auth:user'   (string | null)
  loginPc,         \* position of the login() call in flight
  loginLocal,      \* its locals authTokens, userData
  loginResult,     \* how the promise of the last login() settled
  logoutPc,        \* position of each logout() call in flight
  logoutResult,    \* how the promise of each logout() settled
  restorePc,       \* position of restoreSession()
  restoreLocal,    \* its locals storedTokens, parsedTokens, userData
  restoreResult,   \* the path restoreSession() took
  restarts,        \* number of process restarts so far
  lastLogin,       \* history: the authTokens of the login() that resolved last,
                   \* Null once login() or logout() has been called since
  mounted,         \* an InvoicesScreen instance is mounted
  invoices,        \* InvoicesScreen state `invoices` (DisplayInvoice[])
  isLoading,       \* InvoicesScreen state `isLoading`
  isRefreshing,    \* InvoicesScreen state `isRefreshing`
  error,           \* InvoicesScreen state `error` (string | null)
  stCache,         \* AsyncStorage entry '@invoice_data_cache' (string | null)
  now,             \* Date.now(), in milliseconds since the model's epoch
  loadPc,          \* position of each loadInvoices() call in flight
  loadLocal,       \* its closure and locals
  records,         \* the Invoice[] handed to calculateFinancialMetrics
  metricsPc,       \* "input", "calculated" or "formatted"
  metrics,         \* the FinancialMetrics it returned (cents)
  metricsDisplay,  \* the FinancialMetricsDisplay made of them
  cachePc,         \* position of the saveInvoiceCache / loadInvoiceCache call
  cacheLocal,      \* its argument, its locals, what it logged
  cacheResult,     \* how the promise of the last cache call settled
  cacheRet,        \* what the last loadInvoiceCache() returned
  lastSave,        \* history: argument and time of the call of the
                   \* saveInvoiceCache() that resolved last
  apiPc,           \* position of the fetchInvoices / fetchAuditLogs call
  apiCall,         \* the function called, its accessToken, the requests
                   \* it has issued
  apiResp,         \* what fetch() produced for it
  apiResult        \* how its promise settled

authVars == <<user, tokens, loading, isAuthenticated, stTokens, stUser,
              loginPc, loginLocal, loginResult, logoutPc, logoutResult,
              restorePc, restoreLocal, restoreResult, restarts, lastLogin>>

screenVars == <<mounted, invoices, isLoading, isRefreshing, error>>

invoiceVars == <<screenVars, stCache, now, loadPc, loadLocal>>

metricsVars == <<records, metricsPc, metrics, metricsDisplay>>

cacheVars == <<cachePc, cacheLocal, cacheResult, cacheRet, lastSave>>

apiVars == <<apiPc, apiCall, apiResp, apiResult>>

vars == <<authVars, invoiceVars, metricsVars, cacheVars, apiVars>>

----------------------------------------------------------------------------
(* Bounds *)

MaxRestarts == 1
MaxLogouts == 1
MaxLoads == 1
MaxOverlap == 2
MaxPeriods == 2
MaxRecords == 3

----------------------------------------------------------------------------
(* Values *)

Null == "null"

\* Credential pairs the authentication endpoint can issue, by access token.
AuthTokens == {"tokA", "tokB"}

\* Profiles the profile endpoint can return.
Users == {"userA", "userB"}

\* Strings held by AsyncStorage or carried as a response body: the JSON text
\* of a value, or text that is not JSON.  getItem gives null for an absent key.
Absent == <<>>

NotJson == <<"text">>

\* JSON.stringify
Stringify(v) == <<"json", v>>

\* JSON.parse / response.json() throws on text that is not JSON
ParseOk(s) == Len(s) = 2 /\ s[1] = "json"

\* JSON.parse / response.json()
Parse(s) == s[2]

\* Result of an async function: resolved with a value or rejected with an
\* Error carrying a message.
Resolved(v) == [ok |-> TRUE, value |-> v, error |-> Null]

Rejected(msg) == [ok |-> FALSE, value |-> Null, error |-> msg]

----------------------------------------------------------------------------
(* The remote service as seen through fetch() *)

NetworkError == [status |-> 0, body |-> Absent]

ErrorStatuses == {401, 403, 404, 500}

\* What fetch() can produce for a request whose 200 body is drawn from
\* Payloads: a 200 response (with a decodable or undecodable body), a
\* non-2xx response, or a rejection at network level.
Responses(Payloads) ==
  [status : {200}, body : {Stringify(p) : p \in Payloads} \cup {NotJson}]
    \cup [status : ErrorStatuses, body : {NotJson}]
    \cup {NetworkError}

ResponseOk(resp) == resp.status >= 200 /\ resp.status <= 299

\* authApi.login
loginApi(resp) ==
  IF resp = NetworkError THEN Rejected("Login failed")
  ELSE IF ~ResponseOk(resp) THEN Rejected("Login failed")
  ELSE IF ~ParseOk(resp.body) THEN Rejected("Login failed")
  ELSE Resolved(Parse(resp.body))

\* authApi.fetchUser
fetchUserApi(resp) ==
  IF resp = NetworkError THEN Rejected("Login failed")
  ELSE IF ~ResponseOk(resp)
         THEN IF resp.status = 401 \/ resp.status = 403
                THEN Rejected("Token expired")
                ELSE Rejected("Login failed")
  ELSE IF ~ParseOk(resp.body) THEN Rejected("Login failed")
  ELSE Resolved(Parse(resp.body))

\* Variant: only 401 is taken for an expired token
fetchInvoicesOnly401(resp) ==
  IF resp = NetworkError THEN Rejected("Failed to fetch invoices")
  ELSE IF ~ResponseOk(resp)
         THEN IF resp.status = 401
                THEN Rejected("Token expired")
                ELSE Rejected("Failed to fetch invoices")
  ELSE IF ~ParseOk(resp.body) THEN Rejected("Failed to fetch invoices")
  ELSE Resolved(Parse(resp.body))

\* invoiceApi.fetchInvoices
fetchInvoices(resp) ==
  IF resp = NetworkError THEN Rejected("Failed to fetch invoices")
  ELSE IF ~ResponseOk(resp)
         THEN IF resp.status = 401 \/ resp.status = 403
                THEN Rejected("Token expired")
                ELSE Rejected("Failed to fetch invoices")
  ELSE IF ~ParseOk(resp.body) THEN Rejected("Failed to fetch invoices")
  ELSE Resolved(Parse(resp.body))

----------------------------------------------------------------------------
(* Invoices and their display form *)

\* An Invoice of the API; the optional due_date is absent (Null) or a time.
Invoice(id, patient, cents, status) ==
  [id |-> id, invoice_number |-> id, patient_id |-> patient,
   total_amount_cents |-> cents, status |-> status, due_date |-> Null]

\* The collections the invoices endpoint serves to the holder of a token:
\* each account has its own patients' invoices.
InvoicesOf(token) ==
  IF token = "tokA"
    THEN {<<Invoice(1, 10, 15000, "paid"), Invoice(2, 10, 8500, "pending")>>}
    ELSE {<<Invoice(3, 20, -2500, "unpaid")>>}

InvoiceLists == UNION {InvoicesOf(t) : t \in AuthTokens} \cup {<<>>}

\* mapApiStatusToDisplay
mapApiStatusToDisplay(status, dueDate, clock) ==
  IF status = "paid" THEN "Paid"
  ELSE IF (status = "unpaid" \/ status = "pending")
            /\ dueDate # Null /\ dueDate < clock
         THEN "Overdue"
  ELSE "Pending"

Pad(n, width) ==
  IF width = 3 /\ n < 10 THEN "00" \o ToString(n)
  ELSE IF (width = 3 /\ n < 100) \/ (width = 2 /\ n < 10) THEN "0" \o ToString(n)
  ELSE ToString(n)

RECURSIVE Grouped(_)
\* Intl.NumberFormat('en-US') integer part: groups of three digits
Grouped(n) ==
  IF n < 1000 THEN ToString(n)
  ELSE Grouped(n \div 1000) \o "," \o Pad(n % 1000, 3)

\* formatAmount: cents / 100 as en-US USD currency with two fraction digits
formatAmount(cents) ==
  LET abs == IF cents < 0 THEN 0 - cents ELSE cents
  IN (IF cents < 0 THEN "-" ELSE "") \o "$" \o Grouped(abs \div 100)
       \o "." \o Pad(abs % 100, 2)

\* formatDate
formatDate(dateString) ==
  IF dateString = Null THEN "N/A" ELSE "date " \o ToString(dateString)

\* convertInvoiceToDisplay
convertInvoiceToDisplay(invoice, clock) ==
  [id |-> ToString(invoice.id),
   number |-> "#" \o ToString(invoice.invoice_number),
   amount |-> formatAmount(invoice.total_amount_cents),
   patientId |-> "P-" \o ToString(invoice.patient_id),
   dueDate |-> formatDate(invoice.due_date),
   status |-> mapApiStatusToDisplay(invoice.status, invoice.due_date, clock)]

\* list.map(convertInvoiceToDisplay)
DisplayOf(list, clock) ==
  [k \in 1..Len(list) |-> convertInvoiceToDisplay(list[k], clock)]

----------------------------------------------------------------------------
(* financialMetrics *)

\* A field total_amount_cents as JSON can deliver it: a number, a value of
\* another type, or nothing (null or undefined).
Num(n) == [type |-> "number", value |-> n]

TextAmount == [type |-> "string", value |-> 0]

NoAmount == [type |-> "undefined", value |-> 0]

\* An element of the array handed to calculateFinancialMetrics; a missing id or
\* status is Null.
RawInvoice(id, amount, status) ==
  [id |-> id, total_amount_cents |-> amount, status |-> status]

\* The records the inputs are made of: every amount under every status, a
\* status the code does not know, and records with one field missing or an
\* amount that is not a number.
RecordPool ==
  {RawInvoice("7", Num(n), st) : n \in {-2500, 8500, 15000, 23000},
                                 st \in {"paid", "unpaid", "pending", "void"}}
    \cup {RawInvoice(Null, Num(15000), "paid"),
          RawInvoice("7", NoAmount, "unpaid"),
          RawInvoice("7", TextAmount, "pending"),
          RawInvoice("7", Num(23000), Null)}

RECURSIVE SeqsUpTo(_, _)
\* The sequences over S of length at most n
SeqsUpTo(S, n) ==
  IF n = 0 THEN {<<>>}
  ELSE LET shorter == SeqsUpTo(S, n - 1)
       IN shorter \cup {Append(q, x) : q \in {r \in shorter : Len(r) = n - 1},
                                       x \in S}

\* inv.id != null && inv.total_amount_cents != null &&
\* typeof inv.total_amount_cents === 'number' && inv.status != null
IsValidInvoice(inv) ==
  /\ inv.id # Null
  /\ inv.total_amount_cents.type # "undefined"
  /\ inv.total_amount_cents.type = "number"
  /\ inv.status # Null

\* (inv.total_amount_cents || 0)
AmountOrZero(inv) ==
  IF inv.total_amount_cents.type = "number" /\ inv.total_amount_cents.value # 0
    THEN inv.total_amount_cents.value
    ELSE 0

RECURSIVE ReduceSum(_, _)
\* list.reduce((sum, inv) => sum + (inv.total_amount_cents || 0), sum)
ReduceSum(list, sum) ==
  IF list = <<>> THEN sum
  ELSE ReduceSum(Tail(list), sum + AmountOrZero(Head(list)))

IsOutstanding(inv) == inv.status = "unpaid" \/ inv.status = "pending"

IsPaid(inv) == inv.status = "paid"

\* Variant: no filter for invalid invoices
calculateFinancialMetricsUnfiltered(list) ==
  [outstandingRevenue |-> ReduceSum(SelectSeq(list, IsOutstanding), 0),
   paidRevenue |-> ReduceSum(SelectSeq(list, IsPaid), 0),
   totalRevenue |-> ReduceSum(list, 0)]

\* Variant: the total taken as outstanding plus paid
calculateFinancialMetricsKnownStatuses(list) ==
  LET validInvoices == SelectSeq(list, IsValidInvoice)
      outstandingRevenue == ReduceSum(SelectSeq(validInvoices, IsOutstanding), 0)
      paidRevenue == ReduceSum(SelectSeq(validInvoices, IsPaid), 0)
  IN [outstandingRevenue |-> outstandingRevenue,
      paidRevenue |-> paidRevenue,
      totalRevenue |-> outstandingRevenue + paidRevenue]

\* calculateFinancialMetrics
calculateFinancialMetrics(list) ==
  LET validInvoices == SelectSeq(list, IsValidInvoice)
  IN [outstandingRevenue |-> ReduceSum(SelectSeq(validInvoices, IsOutstanding), 0),
      paidRevenue |-> ReduceSum(SelectSeq(validInvoices, IsPaid), 0),
      totalRevenue |-> ReduceSum(validInvoices, 0)]

\* Variant: the cents formatted without the division by 100
formatCurrencyOfCents(cents) ==
  LET abs == IF cents < 0 THEN 0 - cents ELSE cents
  IN (IF cents < 0 THEN "-" ELSE "") \o "$" \o Grouped(abs) \o ".00"

\* formatCurrency: cents / 100 as en-US USD currency with two fraction digits
formatCurrency(cents) ==
  LET abs == IF cents < 0 THEN 0 - cents ELSE cents
  IN (IF cents < 0 THEN "-" ELSE "") \o "$" \o Grouped(abs \div 100)
       \o "." \o Pad(abs % 100, 2)

\* formatFinancialMetrics
formatFinancialMetrics(m) ==
  [outstandingRevenue |-> formatCurrency(m.outstandingRevenue),
   paidRevenue |-> formatCurrency(m.paidRevenue),
   totalRevenue |-> formatCurrency(m.totalRevenue)]

ZeroMetrics == [outstandingRevenue |-> 0, paidRevenue |-> 0, totalRevenue |-> 0]

\* No metrics work is going on
MetricsIdle ==
  /\ records = <<>>
  /\ metricsPc = "input"
  /\ metrics = ZeroMetrics
  /\ metricsDisplay = formatFinancialMetrics(ZeroMetrics)

\* const calculated = calculateFinancialMetrics(invoices)
metrics_calculate ==
  /\ metricsPc = "input"
  /\ metrics' = calculateFinancialMetrics(records)
  /\ metricsPc' = "calculated"
  /\ UNCHANGED <<records, metricsDisplay, authVars, invoiceVars, cacheVars, apiVars>>

\* const formatted = formatFinancialMetrics(calculated)
metrics_format ==
  /\ metricsPc = "calculated"
  /\ metricsDisplay' = formatFinancialMetrics(metrics)
  /\ metricsPc' = "formatted"
  /\ UNCHANGED <<records, metrics, authVars, invoiceVars, cacheVars, apiVars>>

----------------------------------------------------------------------------
(* invoiceCache *)

CACHE_TTL == 5 * 60 * 1000

\* Variant: the entry expires at the time it is written
CacheDataExpiringAtWrite(list, clock) ==
  [invoices |-> list, timestamp |-> clock, expiresAt |-> clock]

\* saveInvoiceCache: the CachedInvoiceData built at the time of the call
CacheData(list, clock) ==
  [invoices |-> list, timestamp |-> clock, expiresAt |-> clock + CACHE_TTL]

\* Variant: the age of the entry is not looked at
CacheNeverExpired(cacheData, clock) == FALSE

\* loadInvoiceCache: "if (now > cacheData.expiresAt)"
CacheExpired(cacheData, clock) == clock > cacheData.expiresAt

\* What loadInvoiceCache returns: null, or the cached list
NoCache == <<>>

Cached(list) == <<list>>

\* A caller of the two cache functions: it awaits each call before the next.
NoCacheLocal == [arg |-> <<>>, calledAt |-> 0, cacheData |-> <<>>, logged |-> FALSE]

NoSave == <<>>

CacheIdle ==
  /\ cachePc = "idle"
  /\ cacheLocal = NoCacheLocal
  /\ cacheResult = "none"
  /\ cacheRet = NoCache
  /\ lastSave = NoSave

cacheFrame ==
  UNCHANGED <<authVars, screenVars, now, loadPc, loadLocal, metricsVars, apiVars>>

\* Variant: what the catch block caught is thrown to the caller
loadInvoiceCache_rethrow(cached, logged) ==
  /\ cachePc' = "idle"
  /\ cacheLocal' = [cacheLocal EXCEPT !.logged = logged]
  /\ cacheResult' = (IF logged THEN "rejected" ELSE "returned")
  /\ cacheRet' = cached
  /\ UNCHANGED lastSave

\* loadInvoiceCache returns `cached`
loadInvoiceCache_return(cached, logged) ==
  /\ cachePc' = "idle"
  /\ cacheLocal' = [cacheLocal EXCEPT !.logged = logged]
  /\ cacheResult' = "returned"
  /\ cacheRet' = cached
  /\ UNCHANGED lastSave

\* saveInvoiceCache(invoices) is called: const now = Date.now(); cacheData;
\* await AsyncStorage.setItem(CACHE_KEY, JSON.stringify(cacheData))
saveInvoiceCache_call(list) ==
  /\ cachePc = "idle"
  /\ cachePc' = "setItem"
  /\ cacheLocal' = [NoCacheLocal EXCEPT !.arg = list, !.calledAt = now,
                                        !.cacheData = CacheData(list, now)]
  /\ cacheResult' = "none"
  /\ UNCHANGED <<cacheRet, lastSave, stCache>>
  /\ cacheFrame

\* setItem(CACHE_KEY) settles: saveInvoiceCache resolves, or rejects with the
\* error of the storage (there is no try around the await)
saveInvoiceCache_settle ==
  /\ cachePc = "setItem"
  /\ cachePc' = "idle"
  /\ \E stored \in BOOLEAN :
       IF stored
         THEN /\ stCache' = Stringify(cacheLocal.cacheData)
              /\ cacheResult' = "resolved"
              /\ lastSave' = <<[invoices |-> cacheLocal.arg,
                               at |-> cacheLocal.calledAt]>>
         ELSE /\ cacheResult' = "rejected"
              /\ UNCHANGED <<stCache, lastSave>>
  /\ UNCHANGED <<cacheLocal, cacheRet>>
  /\ cacheFrame

\* loadInvoiceCache() is called: await AsyncStorage.getItem(CACHE_KEY)
loadInvoiceCache_call ==
  /\ cachePc = "idle"
  /\ cachePc' = "getItem"
  /\ cacheLocal' = NoCacheLocal
  /\ cacheResult' = "none"
  /\ UNCHANGED <<cacheRet, lastSave, stCache>>
  /\ cacheFrame

\* getItem(CACHE_KEY) settles: a rejection or an unparsable text is caught,
\* logged and gives null; no entry gives null; an expired entry awaits
\* removeItem(CACHE_KEY); else cacheData.invoices is returned
loadInvoiceCache_settleGetItem ==
  /\ cachePc = "getItem"
  /\ \E read \in BOOLEAN :
       IF ~read THEN loadInvoiceCache_return(NoCache, TRUE)
       ELSE IF stCache = Absent THEN loadInvoiceCache_return(NoCache, FALSE)
       ELSE IF ~ParseOk(stCache) THEN loadInvoiceCache_return(NoCache, TRUE)
       ELSE IF CacheExpired(Parse(stCache), now)
         THEN /\ cachePc' = "removeItem"
              /\ UNCHANGED <<cacheLocal, cacheResult, cacheRet, lastSave>>
         ELSE loadInvoiceCache_return(Cached(Parse(stCache).invoices), FALSE)
  /\ UNCHANGED stCache
  /\ cacheFrame

\* removeItem(CACHE_KEY) settles: return null; a rejection is caught, logged
\* and gives null as well
loadInvoiceCache_settleRemoveItem ==
  /\ cachePc = "removeItem"
  /\ \E removed \in BOOLEAN :
       /\ stCache' = (IF removed THEN Absent ELSE stCache)
       /\ loadInvoiceCache_return(NoCache, ~removed)
  /\ cacheFrame

----------------------------------------------------------------------------
(* invoiceApi.fetchInvoices and auditApi.fetchAuditLogs, called on their own *)

\* An AuditLogEntry[] of the API
AuditLists == {<<>>, <<[id |-> 1, action |-> "login"]>>}

\* The statuses a response can carry
ApiStatuses == {200, 201, 299, 300, 400, 401, 403, 404, 499, 500, 503, 599}

\* What fetch() can produce: a response of any status with a decodable or an
\* undecodable body, or a rejection at network level
ApiResponses(Payloads) ==
  [status : ApiStatuses, body : {Stringify(p) : p \in Payloads} \cup {NotJson}]
    \cup {NetworkError}

\* The message of the TypeError fetch() rejects with: the polyfill of React
\* Native, the fetch of the test runtime
FetchRejections == {"Network request failed", "fetch failed"}

\* The message of the SyntaxError response.json() throws
JsonRejections == {"JSON Parse error"}

\* What fetch() or response.json() throws for a response, if anything
Thrown(resp) ==
  IF resp = NetworkError THEN FetchRejections
  ELSE IF ResponseOk(resp) /\ ~ParseOk(resp.body) THEN JsonRejections
  ELSE {Null}

\* String.prototype.includes, for the messages and the words of fetchAuditLogs
Includes(message, word) ==
  <<message, word>> \in {<<"Failed to fetch audit logs", "fetch">>,
                         <<"fetch failed", "fetch">>}

\* auditApi.fetchAuditLogs: `thrown` is the message of what fetch() or
\* response.json() threw
fetchAuditLogs(resp, thrown) ==
  LET caught ==
        IF resp = NetworkError THEN thrown
        ELSE IF ~ResponseOk(resp)
               THEN IF resp.status = 401 \/ resp.status = 403
                      THEN "Token expired"
                      ELSE IF resp.status >= 500 THEN "Server error"
                      ELSE "Failed to fetch audit logs"
        ELSE IF ~ParseOk(resp.body) THEN thrown
        ELSE Null
  IN IF caught = Null THEN Resolved(Parse(resp.body))
     ELSE IF caught = "Token expired" \/ caught = "Server error"
            THEN Rejected(caught)
     ELSE IF \/ Includes(caught, "fetch")
             \/ Includes(caught, "network")
             \/ Includes(caught, "timeout")
            THEN Rejected("Network error")
     ELSE Rejected("Failed to fetch audit logs")

NoApiCall == [fn |-> "none", accessToken |-> Null, requests |-> 0]

NoApiResp == [resp |-> NetworkError, thrown |-> Null]

ApiIdle ==
  /\ apiPc = "idle"
  /\ apiCall = NoApiCall
  /\ apiResp = NoApiResp
  /\ apiResult = Rejected(Null)

apiFrame == UNCHANGED <<authVars, invoiceVars, metricsVars, cacheVars>>

\* fetchInvoices(accessToken) or fetchAuditLogs(accessToken) is called: it
\* issues its request, await fetch(...)
api_call(fn, accessToken) ==
  /\ apiPc \in {"idle", "settled"}
  /\ apiPc' = "fetch"
  /\ apiCall' = [fn |-> fn, accessToken |-> accessToken, requests |-> 1]
  /\ apiResp' = NoApiResp
  /\ apiResult' = Rejected(Null)
  /\ apiFrame

\* fetch() settles and fetchInvoices runs to its end
fetchInvoices_settle ==
  /\ apiPc = "fetch" /\ apiCall.fn = "fetchInvoices"
  /\ \E resp \in ApiResponses(InvoiceLists) : \E thrown \in Thrown(resp) :
       /\ apiResp' = [resp |-> resp, thrown |-> thrown]
       /\ apiResult' = fetchInvoices(resp)
  /\ apiPc' = "settled"
  /\ UNCHANGED apiCall
  /\ apiFrame

\* fetch() settles and fetchAuditLogs runs to its end
fetchAuditLogs_settle ==
  /\ apiPc = "fetch" /\ apiCall.fn = "fetchAuditLogs"
  /\ \E resp \in ApiResponses(AuditLists) : \E thrown \in Thrown(resp) :
       /\ apiResp' = [resp |-> resp, thrown |-> thrown]
       /\ apiResult' = fetchAuditLogs(resp, thrown)
  /\ apiPc' = "settled"
  /\ UNCHANGED apiCall
  /\ apiFrame

----------------------------------------------------------------------------
(* AuthProvider *)

\* Variant: the flag derived from `user` alone
ComputeIsAuthenticatedFromUser(u, t) == u # Null

\* const isAuthenticated = user !== null && tokens !== null
ComputeIsAuthenticated(u, t) == u # Null /\ t # Null

\* The loadInvoices() calls that can be in flight at a time
LoadIds == 1..MaxOverlap

\* The locals of a loadInvoices() call, with two records of the order of the
\* fetches: `since`, the calls (itself included) whose fetch had been started
\* when the fetch of this one started, and `stale`, whether a call whose
\* fetch started later has already shown and cached its result.
NoLoadLocal == [live |-> FALSE, isRefresh |-> FALSE, err |-> Null,
                token |-> Null, apiInvoices |-> <<>>, cacheData |-> <<>>,
                since |-> {}, stale |-> FALSE]

\* useState initial values of InvoicesScreen
ScreenUnmounted ==
  /\ mounted' = FALSE
  /\ invoices' = <<>>
  /\ isLoading' = TRUE
  /\ isRefreshing' = FALSE
  /\ error' = Null

\* The render that follows the state updates of a turn: the context value is
\* recomputed, and AppNavigator keeps the Main group (and with it a mounted
\* InvoicesScreen) only while isAuthenticated.  The loads of an unmounted
\* screen go on, their state updates no longer reach a screen.
Render ==
  /\ isAuthenticated' = ComputeIsAuthenticated(user', tokens')
  /\ IF mounted /\ ~isAuthenticated'
       THEN /\ ScreenUnmounted
            /\ loadLocal' = [i \in LoadIds |-> [loadLocal[i] EXCEPT !.live = FALSE]]
       ELSE UNCHANGED <<screenVars, loadLocal>>
  /\ UNCHANGED <<stCache, now, loadPc, metricsVars, cacheVars, apiVars>>

NoLoginLocal == [authTokens |-> Null, userData |-> Null]

NoRestoreLocal == [storedTokens |-> Absent, parsedTokens |-> Null, userData |-> Null]

LogoutIds == 1..MaxLogouts

\* The application starts: useState initial values, empty storage, the mount
\* effect of AuthProvider pending
AppStart ==
  /\ user = Null
  /\ tokens = Null
  /\ loading = FALSE
  /\ isAuthenticated = FALSE
  /\ stTokens = Absent
  /\ stUser = Absent
  /\ loginPc = "idle"
  /\ loginLocal = NoLoginLocal
  /\ loginResult = "none"
  /\ logoutPc = [i \in LogoutIds |-> "idle"]
  /\ logoutResult = [i \in LogoutIds |-> "none"]
  /\ restorePc = "mount"
  /\ restoreLocal = NoRestoreLocal
  /\ restoreResult = "none"
  /\ restarts = 0
  /\ lastLogin = Null
  /\ mounted = FALSE
  /\ invoices = <<>>
  /\ isLoading = TRUE
  /\ isRefreshing = FALSE
  /\ error = Null
  /\ stCache = Absent
  /\ now = 0
  /\ loadPc = [i \in LoadIds |-> "idle"]
  /\ loadLocal = [i \in LoadIds |-> NoLoadLocal]
  /\ CacheIdle
  /\ ApiIdle

Init == AppStart /\ MetricsIdle

\* The login form is on screen: AppNavigator shows the spinner while
\* `loading && !isAuthenticated` and the Auth group only when not authenticated;
\* the mount effect has run before any user input is handled.
LoginScreenShown == restorePc # "mount" /\ ~isAuthenticated /\ ~loading

\* The profile modal with the logout button is on screen: it lives in the
\* authenticated screens and renders only while `user` is set.
LogoutButtonShown == restorePc # "mount" /\ isAuthenticated /\ user # Null

----------------------------------------------------------------------------
(* login() *)

loginFrame == UNCHANGED <<logoutPc, logoutResult, restorePc, restoreLocal,
                          restoreResult, restarts>>

\* Variant: setLoading(false) at the end of the try block instead of in finally
loginCatchWithoutFinally(err) ==
  /\ tokens' = Null
  /\ user' = Null
  /\ loginResult' = err
  /\ loginPc' = "idle"
  /\ loginLocal' = NoLoginLocal
  /\ UNCHANGED <<loading, lastLogin>>

\* catch: setTokens(null); setUser(null); throw error -- finally: setLoading(false)
loginCatch(err) ==
  /\ tokens' = Null
  /\ user' = Null
  /\ loading' = FALSE
  /\ loginResult' = err
  /\ loginPc' = "idle"
  /\ loginLocal' = NoLoginLocal
  /\ UNCHANGED lastLogin

\* try completed -- finally: setLoading(false); the promise resolves
loginReturn ==
  /\ loading' = FALSE
  /\ loginResult' = "resolved"
  /\ loginPc' = "idle"
  /\ loginLocal' = NoLoginLocal
  /\ lastLogin' = loginLocal.authTokens

\* handleLoginPress -> login(): setLoading(true); await loginApi(...)
login_call ==
  /\ LoginScreenShown
  /\ loading' = TRUE
  /\ loginPc' = "loginApi"
  /\ loginLocal' = NoLoginLocal
  /\ loginResult' = "pending"
  /\ lastLogin' = Null
  /\ UNCHANGED <<user, tokens, stTokens, stUser>>
  /\ Render
  /\ loginFrame

\* loginApi settles; on success await fetchUserApi(authTokens.access_token)
login_loginApi ==
  /\ loginPc = "loginApi"
  /\ \E resp \in Responses(AuthTokens) :
       LET r == loginApi(resp) IN
       IF r.ok
         THEN /\ loginLocal' = [loginLocal EXCEPT !.authTokens = r.value]
              /\ loginPc' = "fetchUser"
              /\ UNCHANGED <<user, tokens, loading, loginResult, lastLogin>>
         ELSE loginCatch(r.error)
  /\ UNCHANGED <<stTokens, stUser>>
  /\ Render
  /\ loginFrame

\* fetchUserApi settles; on success setTokens(authTokens); setUser(userData);
\* await AsyncStorage.setItem(TOKENS, ...)
login_fetchUser ==
  /\ loginPc = "fetchUser"
  /\ \E resp \in Responses(Users) :
       LET r == fetchUserApi(resp) IN
       IF r.ok
         THEN /\ loginLocal' = [loginLocal EXCEPT !.userData = r.value]
              /\ tokens' = loginLocal.authTokens
              /\ user' = r.value
              /\ loginPc' = "setItemTokens"
              /\ UNCHANGED <<loading, loginResult, lastLogin>>
         ELSE loginCatch(r.error)
  /\ UNCHANGED <<stTokens, stUser>>
  /\ Render
  /\ loginFrame

\* setItem(TOKENS) settles; on success await AsyncStorage.setItem(USER, ...)
login_setItemTokens ==
  /\ loginPc = "setItemTokens"
  /\ \E stored \in BOOLEAN :
       IF stored
         THEN /\ stTokens' = Stringify(loginLocal.authTokens)
              /\ loginPc' = "setItemUser"
              /\ UNCHANGED <<user, tokens, loading, loginResult, loginLocal,
                             lastLogin>>
         ELSE /\ loginCatch("Storage error")
              /\ UNCHANGED stTokens
  /\ UNCHANGED stUser
  /\ Render
  /\ loginFrame

\* setItem(USER) settles; on success the try block is complete
login_setItemUser ==
  /\ loginPc = "setItemUser"
  /\ \E stored \in BOOLEAN :
       IF stored
         THEN /\ stUser' = Stringify(loginLocal.userData)
              /\ loginReturn
              /\ UNCHANGED <<user, tokens>>
         ELSE /\ loginCatch("Storage error")
              /\ UNCHANGED stUser
  /\ UNCHANGED stTokens
  /\ Render
  /\ loginFrame

login == login_call \/ login_loginApi \/ login_fetchUser
           \/ login_setItemTokens \/ login_setItemUser

----------------------------------------------------------------------------
(* logout() *)

logoutFrame == UNCHANGED <<loading, loginPc, loginLocal, loginResult,
                           restorePc, restoreLocal, restoreResult, restarts>>

\* Variant: no try/catch around the removals, the promise rejects
logoutWithoutCatch(i) ==
  /\ logoutPc' = [logoutPc EXCEPT ![i] = "idle"]
  /\ logoutResult' = [logoutResult EXCEPT ![i] = "rejected"]

\* catch: console.error('Error during logout:', error); the promise resolves
logoutCatch(i) ==
  /\ logoutPc' = [logoutPc EXCEPT ![i] = "idle"]
  /\ logoutResult' = [logoutResult EXCEPT ![i] = "resolved, error logged"]

\* handleLogout -> logout(): setTokens(null); setUser(null);
\* await AsyncStorage.removeItem(TOKENS)
logout_call(i) ==
  /\ LogoutButtonShown
  /\ logoutPc[i] = "idle"
  /\ tokens' = Null
  /\ user' = Null
  /\ logoutPc' = [logoutPc EXCEPT ![i] = "removeTokens"]
  /\ logoutResult' = [logoutResult EXCEPT ![i] = "pending"]
  /\ lastLogin' = Null
  /\ UNCHANGED <<stTokens, stUser>>
  /\ Render
  /\ logoutFrame

\* removeItem(TOKENS) settles; on success await AsyncStorage.removeItem(USER)
logout_removeTokens(i) ==
  /\ logoutPc[i] = "removeTokens"
  /\ \E removed \in BOOLEAN :
       IF removed
         THEN /\ stTokens' = Absent
              /\ logoutPc' = [logoutPc EXCEPT ![i] = "removeUser"]
              /\ UNCHANGED logoutResult
         ELSE /\ logoutCatch(i)
              /\ UNCHANGED stTokens
  /\ UNCHANGED <<user, tokens, stUser, lastLogin>>
  /\ Render
  /\ logoutFrame

\* removeItem(USER) settles; the promise resolves either way
logout_removeUser(i) ==
  /\ logoutPc[i] = "removeUser"
  /\ \E removed \in BOOLEAN :
       IF removed
         THEN /\ stUser' = Absent
              /\ logoutPc' = [logoutPc EXCEPT ![i] = "idle"]
              /\ logoutResult' = [logoutResult EXCEPT ![i] = "resolved"]
         ELSE /\ logoutCatch(i)
              /\ UNCHANGED stUser
  /\ UNCHANGED <<user, tokens, stTokens, lastLogin>>
  /\ Render
  /\ logoutFrame

logout == \E i \in LogoutIds :
            logout_call(i) \/ logout_removeTokens(i) \/ logout_removeUser(i)

----------------------------------------------------------------------------
(* restoreSession(), run once by the mount effect *)

restoreFrame == UNCHANGED <<loginPc, loginLocal, loginResult, logoutPc,
                            logoutResult, restarts, lastLogin>>

\* Variant: setLoading(false) is not reached
restoreReturnWithoutFinally(result) ==
  /\ restorePc' = "done"
  /\ restoreResult' = result
  /\ UNCHANGED loading

\* finally: setLoading(false)
restoreFinally(result) ==
  /\ loading' = FALSE
  /\ restorePc' = "done"
  /\ restoreResult' = result

\* outer catch: console.error('Error restoring session:', error);
\* setTokens(null); setUser(null) -- then finally
restoreOuterCatch ==
  /\ tokens' = Null
  /\ user' = Null
  /\ restoreFinally("error logged")

\* Variant: the inner catch clears `user` but not `tokens`
restoreInnerCatchKeepingTokens ==
  /\ user' = Null
  /\ restorePc' = "removeTokens"
  /\ UNCHANGED <<tokens, loading, restoreResult>>

\* inner catch: setTokens(null); setUser(null);
\* await AsyncStorage.removeItem(TOKENS)
restoreInnerCatch ==
  /\ tokens' = Null
  /\ user' = Null
  /\ restorePc' = "removeTokens"
  /\ UNCHANGED <<loading, restoreResult>>

\* useEffect(..., []): setLoading(true); await AsyncStorage.getItem(TOKENS)
restoreSession_mount ==
  /\ restorePc = "mount"
  /\ loading' = TRUE
  /\ restorePc' = "getItemTokens"
  /\ UNCHANGED <<user, tokens, stTokens, stUser, restoreLocal, restoreResult>>
  /\ Render
  /\ restoreFrame

\* Variant: both reads use STORAGE_KEYS.USER
restoreSession_getItemTokensFromUserKey ==
  /\ restorePc = "getItemTokens"
  /\ \E read \in BOOLEAN :
       IF read
         THEN /\ restoreLocal' = [restoreLocal EXCEPT !.storedTokens = stUser]
              /\ restorePc' = "getItemUser"
              /\ UNCHANGED <<user, tokens, loading, restoreResult>>
         ELSE /\ restoreOuterCatch
              /\ UNCHANGED restoreLocal
  /\ UNCHANGED <<stTokens, stUser>>
  /\ Render
  /\ restoreFrame

\* getItem(TOKENS) settles; on success await AsyncStorage.getItem(USER)
restoreSession_getItemTokens ==
  /\ restorePc = "getItemTokens"
  /\ \E read \in BOOLEAN :
       IF read
         THEN /\ restoreLocal' = [restoreLocal EXCEPT !.storedTokens = stTokens]
              /\ restorePc' = "getItemUser"
              /\ UNCHANGED <<user, tokens, loading, restoreResult>>
         ELSE /\ restoreOuterCatch
              /\ UNCHANGED restoreLocal
  /\ UNCHANGED <<stTokens, stUser>>
  /\ Render
  /\ restoreFrame

\* getItem(USER) settles; if both entries exist: JSON.parse both,
\* setTokens(parsedTokens); setUser(parsedUser); await fetchUserApi(...)
restoreSession_getItemUser ==
  /\ restorePc = "getItemUser"
  /\ \E read \in BOOLEAN :
       IF ~read
         THEN /\ restoreOuterCatch
              /\ UNCHANGED restoreLocal
         ELSE IF restoreLocal.storedTokens # Absent /\ stUser # Absent
           THEN IF ParseOk(restoreLocal.storedTokens) /\ ParseOk(stUser)
                  THEN /\ tokens' = Parse(restoreLocal.storedTokens)
                       /\ user' = Parse(stUser)
                       /\ restoreLocal' = [restoreLocal EXCEPT
                            !.parsedTokens = Parse(restoreLocal.storedTokens)]
                       /\ restorePc' = "fetchUser"
                       /\ UNCHANGED <<loading, restoreResult>>
                  ELSE /\ restoreOuterCatch
                       /\ UNCHANGED restoreLocal
           ELSE /\ restoreFinally("no stored session")
                /\ UNCHANGED <<user, tokens, restoreLocal>>
  /\ UNCHANGED <<stTokens, stUser>>
  /\ Render
  /\ restoreFrame

\* fetchUserApi settles; on success setUser(userData);
\* await AsyncStorage.setItem(USER, ...); on failure the inner catch
restoreSession_fetchUser ==
  /\ restorePc = "fetchUser"
  /\ \E resp \in Responses(Users) :
       LET r == fetchUserApi(resp) IN
       IF r.ok
         THEN /\ user' = r.value
              /\ restoreLocal' = [restoreLocal EXCEPT !.userData = r.value]
              /\ restorePc' = "setItemUser"
              /\ UNCHANGED <<tokens, loading, restoreResult>>
         ELSE /\ restoreInnerCatch
              /\ UNCHANGED restoreLocal
  /\ UNCHANGED <<stTokens, stUser>>
  /\ Render
  /\ restoreFrame

\* setItem(USER) settles; it is awaited inside the inner try, so its failure
\* is caught by the inner catch
restoreSession_setItemUser ==
  /\ restorePc = "setItemUser"
  /\ \E stored \in BOOLEAN :
       IF stored
         THEN /\ stUser' = Stringify(restoreLocal.userData)
              /\ restoreFinally("revalidated")
              /\ UNCHANGED <<user, tokens>>
         ELSE /\ restoreInnerCatch
              /\ UNCHANGED stUser
  /\ UNCHANGED <<stTokens, restoreLocal>>
  /\ Render
  /\ restoreFrame

\* removeItem(TOKENS) of the inner catch settles; its failure is caught by the
\* outer catch
restoreSession_removeTokens ==
  /\ restorePc = "removeTokens"
  /\ \E removed \in BOOLEAN :
       IF removed
         THEN /\ stTokens' = Absent
              /\ restorePc' = "removeUser"
              /\ UNCHANGED <<user, tokens, loading, restoreResult>>
         ELSE /\ restoreOuterCatch
              /\ UNCHANGED stTokens
  /\ UNCHANGED <<stUser, restoreLocal>>
  /\ Render
  /\ restoreFrame

\* removeItem(USER) of the inner catch settles
restoreSession_removeUser ==
  /\ restorePc = "removeUser"
  /\ \E removed \in BOOLEAN :
       IF removed
         THEN /\ stUser' = Absent
              /\ restoreFinally("cleared")
              /\ UNCHANGED <<user, tokens>>
         ELSE /\ restoreOuterCatch
              /\ UNCHANGED stUser
  /\ UNCHANGED <<stTokens, restoreLocal>>
  /\ Render
  /\ restoreFrame

restoreSession ==
  \/ restoreSession_mount
  \/ restoreSession_getItemTokens
  \/ restoreSession_getItemUser
  \/ restoreSession_fetchUser
  \/ restoreSession_setItemUser
  \/ restoreSession_removeTokens
  \/ restoreSession_removeUser

----------------------------------------------------------------------------
(* InvoicesScreen: loadInvoices() and the cache calls it awaits *)

loadFrame == UNCHANGED <<authVars, metricsVars, cacheVars, apiVars>>

SetLoad(i, pc, local) ==
  /\ loadPc' = [loadPc EXCEPT ![i] = pc]
  /\ loadLocal' = [loadLocal EXCEPT ![i] =
       IF pc = "fetchInvoices"
         THEN [local EXCEPT !.since =
                 {k \in LoadIds : k = i \/ loadLocal[k].since # {}}]
         ELSE local]

\* The state updates of load i reach the screen only if the instance that
\* started it is still mounted.
Live(i) == mounted /\ loadLocal[i].live

\* finally: setIsLoading(false); setIsRefreshing(false)
loadFinally(i, shown, message) ==
  /\ IF Live(i)
       THEN /\ invoices' = shown
            /\ error' = message
            /\ isLoading' = FALSE
            /\ isRefreshing' = FALSE
       ELSE UNCHANGED <<invoices, error, isLoading, isRefreshing>>
  /\ loadPc' = [loadPc EXCEPT ![i] = "idle"]
  /\ loadLocal' = [k \in LoadIds |->
       IF k = i THEN NoLoadLocal
       ELSE [loadLocal[k] EXCEPT
               !.since = @ \ {i},
               !.stale = @ \/ (/\ k \in loadLocal[i].since
                               /\ Live(i) /\ loadPc[i] = "setItemCache")]]
  /\ UNCHANGED mounted

\* Variant: the catch block does not look at the cache
loadAfterCacheIgnoringCache(i, cached) ==
  IF loadLocal[i].err # Null
    THEN loadFinally(i, <<>>, "Unable to load invoices")
    ELSE /\ IF cached # NoCache /\ Live(i)
              THEN invoices' = DisplayOf(cached[1], now)
              ELSE UNCHANGED invoices
         /\ SetLoad(i, "fetchInvoices", loadLocal[i])
         /\ UNCHANGED <<mounted, isLoading, isRefreshing, error>>

\* Variant: the catch block sets no error
loadAfterCacheSilent(i, cached) ==
  IF loadLocal[i].err # Null
    THEN IF cached # NoCache
           THEN loadFinally(i, DisplayOf(cached[1], now), error)
           ELSE loadFinally(i, <<>>, error)
    ELSE /\ IF cached # NoCache /\ Live(i)
              THEN invoices' = DisplayOf(cached[1], now)
              ELSE UNCHANGED invoices
         /\ SetLoad(i, "fetchInvoices", loadLocal[i])
         /\ UNCHANGED <<mounted, isLoading, isRefreshing, error>>

\* What follows `await loadInvoiceCache()` once it returned `cached`
\* (NoCache or Cached(list)): in the try block, show the cached list and await
\* fetchInvoices(tokens.access_token); in the catch block, show the cached
\* list or the error, then finally.
loadAfterCache(i, cached) ==
  IF loadLocal[i].err # Null
    THEN IF cached # NoCache
           THEN loadFinally(i, DisplayOf(cached[1], now), error)
           ELSE loadFinally(i, <<>>, "Unable to load invoices")
    ELSE /\ IF cached # NoCache /\ Live(i)
              THEN invoices' = DisplayOf(cached[1], now)
              ELSE UNCHANGED invoices
         /\ SetLoad(i, "fetchInvoices", loadLocal[i])
         /\ UNCHANGED <<mounted, isLoading, isRefreshing, error>>

\* catch (err): console.error(...); await loadInvoiceCache()
loadCatch(i, err) ==
  /\ SetLoad(i, "getItemCache", [loadLocal[i] EXCEPT !.err = err])
  /\ UNCHANGED screenVars

\* loadInvoices(isRefresh) is called: tokens are set (the screen is mounted
\* only while authenticated); setIsRefreshing(true) or setIsLoading(true);
\* setError(null); await loadInvoiceCache() or, on refresh, fetchInvoices()
loadInvoices_call(i, isRefresh) ==
  /\ loadPc[i] = "idle"
  /\ \A j \in LoadIds : j < i => loadPc[j] # "idle"
  /\ tokens # Null
  /\ isRefreshing' = (IF isRefresh THEN TRUE ELSE isRefreshing)
  /\ isLoading' = (IF isRefresh THEN isLoading ELSE TRUE)
  /\ error' = Null
  /\ SetLoad(i, IF isRefresh THEN "fetchInvoices" ELSE "getItemCache",
             [NoLoadLocal EXCEPT !.live = TRUE, !.isRefresh = isRefresh,
                                 !.token = tokens])

\* The Invoices tab is opened: the screen mounts and its effect runs
\* loadInvoices()
InvoicesScreen_mount(i) ==
  /\ isAuthenticated
  /\ ~mounted
  /\ mounted' = TRUE
  /\ invoices' = <<>>
  /\ loadInvoices_call(i, FALSE)
  /\ UNCHANGED <<stCache, now>>
  /\ loadFrame

\* FlatList onRefresh: loadInvoices(true)
InvoicesScreen_onRefresh(i) ==
  /\ mounted
  /\ ~isRefreshing
  /\ loadInvoices_call(i, TRUE)
  /\ UNCHANGED <<mounted, invoices, stCache, now>>
  /\ loadFrame

\* loadInvoiceCache: getItem(CACHE_KEY) settles; absent, unreadable or
\* unparsable gives null; expired awaits removeItem(CACHE_KEY); else the list
loadInvoiceCache_getItemSettles(i, read) ==
  /\ loadPc[i] = "getItemCache"
  /\ IF ~read \/ stCache = Absent \/ ~ParseOk(stCache)
       THEN loadAfterCache(i, NoCache)
       ELSE IF CacheExpired(Parse(stCache), now)
              THEN /\ SetLoad(i, "removeItemCache", loadLocal[i])
                   /\ UNCHANGED screenVars
              ELSE loadAfterCache(i, Cached(Parse(stCache).invoices))
  /\ UNCHANGED <<stCache, now>>
  /\ loadFrame

\* The storage serves the read, or AsyncStorage.getItem rejects
loadInvoiceCache_getItem(i) ==
  \E read \in BOOLEAN : loadInvoiceCache_getItemSettles(i, read)

\* loadInvoiceCache: removeItem(CACHE_KEY) settles; null either way
loadInvoiceCache_removeItem(i) ==
  /\ loadPc[i] = "removeItemCache"
  /\ \E removed \in BOOLEAN :
       stCache' = (IF removed THEN Absent ELSE stCache)
  /\ loadAfterCache(i, NoCache)
  /\ UNCHANGED now
  /\ loadFrame

\* fetchInvoices settles; on success saveInvoiceCache(apiInvoices) builds the
\* entry with Date.now() and awaits setItem(CACHE_KEY, ...)
loadInvoices_fetchInvoices(i) ==
  /\ loadPc[i] = "fetchInvoices"
  /\ \E resp \in Responses(InvoicesOf(loadLocal[i].token) \cup {<<>>}) :
       LET r == fetchInvoices(resp) IN
       IF r.ok
         THEN /\ SetLoad(i, "setItemCache",
                         [loadLocal[i] EXCEPT !.apiInvoices = r.value,
                                              !.cacheData = CacheData(r.value, now)])
              /\ UNCHANGED screenVars
         ELSE loadCatch(i, r.error)
  /\ UNCHANGED <<stCache, now>>
  /\ loadFrame

\* saveInvoiceCache: setItem(CACHE_KEY) settles; on success
\* setInvoices(apiInvoices.map(...)) and finally; its failure is thrown into
\* the catch block of loadInvoices
saveInvoiceCache_setItem(i) ==
  /\ loadPc[i] = "setItemCache"
  /\ \E stored \in BOOLEAN :
       IF stored
         THEN /\ stCache' = Stringify(loadLocal[i].cacheData)
              /\ loadFinally(i, DisplayOf(loadLocal[i].apiInvoices, now), error)
         ELSE /\ loadCatch(i, "Storage error")
              /\ UNCHANGED stCache
  /\ UNCHANGED now
  /\ loadFrame

\* Time passes, one time-to-live at a time: a clock reading is before, at or
\* after the expiry of an entry written at an earlier reading
Tick ==
  /\ now \div CACHE_TTL < MaxPeriods
  /\ now' = now + CACHE_TTL
  /\ UNCHANGED <<screenVars, stCache, loadPc, loadLocal>>
  /\ loadFrame

\* The loads of a screen used without haste: at most MaxLoads in flight
loadInvoices == \E i \in 1..MaxLoads :
  \/ InvoicesScreen_mount(i)
  \/ InvoicesScreen_onRefresh(i)
  \/ loadInvoiceCache_getItem(i)
  \/ loadInvoiceCache_removeItem(i)
  \/ loadInvoices_fetchInvoices(i)
  \/ saveInvoiceCache_setItem(i)

----------------------------------------------------------------------------
(* Process lifetime *)

\* The process ends (at any point, operations in flight are lost) and a fresh
\* one starts on the same durable storage: useState initial values, mount
\* effect pending.
ProcessRestart ==
  /\ restarts < MaxRestarts
  /\ restarts' = restarts + 1
  /\ user' = Null
  /\ tokens' = Null
  /\ loading' = FALSE
  /\ loginPc' = "idle"
  /\ loginLocal' = NoLoginLocal
  /\ loginResult' = "none"
  /\ logoutPc' = [i \in LogoutIds |-> "idle"]
  /\ logoutResult' = [i \in LogoutIds |-> "none"]
  /\ restorePc' = "mount"
  /\ restoreLocal' = NoRestoreLocal
  /\ restoreResult' = "none"
  /\ isAuthenticated' = FALSE
  /\ ScreenUnmounted
  /\ loadPc' = [i \in LoadIds |-> "idle"]
  /\ loadLocal' = [i \in LoadIds |-> NoLoadLocal]
  /\ UNCHANGED <<stTokens, stUser, stCache, now, lastLogin, metricsVars, cacheVars,
                 apiVars>>

----------------------------------------------------------------------------
(* Specifications *)

\* The session manager: login, logout and restoreSession under every
\* interleaving the screens allow and every outcome of the remote and storage
\* calls, across process restarts.
Next == login \/ logout \/ restoreSession \/ ProcessRestart

Spec == Init /\ [][Next]_vars

\* The invoice screen on top of a session manager whose own remote and
\* storage calls succeed and whose profile endpoint serves one profile: the
\* loads and refreshes of the screen, with every outcome of their fetch and
\* cache calls, interleaved with the clock, logout, a new login and process
\* restarts.
SessionSucceeds ==
  /\ loginResult' \in {"none", "pending", "resolved"}
  /\ restoreResult' \in {"none", "no stored session", "revalidated"}
  /\ restorePc' \notin {"removeTokens", "removeUser"}
  /\ \A i \in LogoutIds : logoutResult'[i] \in {"none", "pending", "resolved"}
  /\ user' \in {Null, "userA"}

Session ==
  \/ (login_call /\ SessionSucceeds)
  \/ (login_loginApi /\ SessionSucceeds)
  \/ (login_fetchUser /\ SessionSucceeds)
  \/ (login_setItemTokens /\ SessionSucceeds)
  \/ (login_setItemUser /\ SessionSucceeds)
  \/ \E i \in LogoutIds : (logout_call(i) /\ SessionSucceeds)
  \/ \E i \in LogoutIds : (logout_removeTokens(i) /\ SessionSucceeds)
  \/ \E i \in LogoutIds : (logout_removeUser(i) /\ SessionSucceeds)
  \/ (restoreSession_mount /\ SessionSucceeds)
  \/ (restoreSession_getItemTokens /\ SessionSucceeds)
  \/ (restoreSession_getItemUser /\ SessionSucceeds)
  \/ (restoreSession_fetchUser /\ SessionSucceeds)
  \/ (restoreSession_setItemUser /\ SessionSucceeds)

InvoiceNext == loadInvoices \/ Tick \/ Session \/ ProcessRestart

InvoiceSpec == Init /\ [][InvoiceNext]_vars

\* The financial metrics functions applied to every collection of at most
\* MaxRecords records of RecordPool.
MetricsInit ==
  /\ AppStart
  /\ records \in SeqsUpTo(RecordPool, MaxRecords)
  /\ metricsPc = "input"
  /\ metrics = ZeroMetrics
  /\ metricsDisplay = formatFinancialMetrics(ZeroMetrics)

\* The two cache functions called one after the other, with any collection,
\* while time passes.
cacheClient ==
  \/ \E list \in InvoiceLists : saveInvoiceCache_call(list)
  \/ saveInvoiceCache_settle
  \/ loadInvoiceCache_call
  \/ loadInvoiceCache_settleGetItem
  \/ loadInvoiceCache_settleRemoveItem

CacheNext == cacheClient \/ Tick

CacheSpec == Init /\ [][CacheNext]_vars

\* A session as login() leaves it, the Invoices tab not opened yet
SignedIn ==
  /\ user = "userA"
  /\ tokens = "tokA"
  /\ loading = FALSE
  /\ isAuthenticated = TRUE
  /\ stTokens = Stringify("tokA")
  /\ stUser = Stringify("userA")
  /\ loginPc = "idle"
  /\ loginLocal = NoLoginLocal
  /\ loginResult = "resolved"
  /\ logoutPc = [i \in LogoutIds |-> "idle"]
  /\ logoutResult = [i \in LogoutIds |-> "none"]
  /\ restorePc = "done"
  /\ restoreLocal = NoRestoreLocal
  /\ restoreResult = "no stored session"
  /\ restarts = 0
  /\ lastLogin = "tokA"
  /\ mounted = FALSE
  /\ invoices = <<>>
  /\ isLoading = TRUE
  /\ isRefreshing = FALSE
  /\ error = Null
  /\ stCache = Absent
  /\ now = 0
  /\ loadPc = [i \in LoadIds |-> "idle"]
  /\ loadLocal = [i \in LoadIds |-> NoLoadLocal]
  /\ CacheIdle
  /\ ApiIdle
  /\ MetricsIdle

\* The loads of a screen whose list is pulled to refresh while loads are in
\* flight: the FlatList and its onRefresh are there in every render
overlappingLoads == \E i \in LoadIds :
  \/ InvoicesScreen_mount(i)
  \/ InvoicesScreen_onRefresh(i)
  \/ loadInvoiceCache_getItem(i)
  \/ loadInvoiceCache_removeItem(i)
  \/ loadInvoices_fetchInvoices(i)
  \/ saveInvoiceCache_setItem(i)

OverlapNext == overlappingLoads \/ Tick

OverlapSpec == SignedIn /\ [][OverlapNext]_vars

\* The invoice screen of a signed-in user, who may log out and log in again,
\* with any credentials and any outcome of the remote and storage calls,
\* while time passes.
AccountSwitchNext == loadInvoices \/ Tick \/ login \/ logout

AccountSwitchSpec == SignedIn /\ [][AccountSwitchNext]_vars

\* The application starts on a storage whose cache key holds a text that
\* saveInvoiceCache did not write and JSON.parse rejects.
CorruptCacheStart ==
  /\ user = Null
  /\ tokens = Null
  /\ loading = FALSE
  /\ isAuthenticated = FALSE
  /\ stTokens = Absent
  /\ stUser = Absent
  /\ loginPc = "idle"
  /\ loginLocal = NoLoginLocal
  /\ loginResult = "none"
  /\ logoutPc = [i \in LogoutIds |-> "idle"]
  /\ logoutResult = [i \in LogoutIds |-> "none"]
  /\ restorePc = "mount"
  /\ restoreLocal = NoRestoreLocal
  /\ restoreResult = "none"
  /\ restarts = 0
  /\ lastLogin = Null
  /\ mounted = FALSE
  /\ invoices = <<>>
  /\ isLoading = TRUE
  /\ isRefreshing = FALSE
  /\ error = Null
  /\ stCache = NotJson
  /\ now = 0
  /\ loadPc = [i \in LoadIds |-> "idle"]
  /\ loadLocal = [i \in LoadIds |-> NoLoadLocal]
  /\ CacheIdle
  /\ ApiIdle
  /\ MetricsIdle

CacheFaultSpec == CorruptCacheStart /\ [][CacheNext]_vars

\* The two fetch functions called with any token, answered in any way
ApiNext ==
  \/ \E fn \in {"fetchInvoices", "fetchAuditLogs"} :
       \E accessToken \in AuthTokens : api_call(fn, accessToken)
  \/ fetchInvoices_settle
  \/ fetchAuditLogs_settle

ApiSpec == Init /\ [][ApiNext]_vars

MetricsNext == metrics_calculate \/ metrics_format

MetricsSpec == MetricsInit /\ [][MetricsNext]_vars

----------------------------------------------------------------------------
(* Properties of the session manager and of the invoice screen *)

\* A step of login(), of logout call i, of restoreSession(), of load i: the
\* position of the call changes and the process goes on.
LoginStep == loginPc' # loginPc /\ restarts' = restarts

LogoutStep(i) == logoutPc'[i] # logoutPc[i] /\ restarts' = restarts

RestoreStep == restorePc' # restorePc /\ restarts' = restarts

LoadStep(i) == loadPc'[i] # loadPc[i] /\ restarts' = restarts

\* Logout call i is the only logout() of this process, and no login() has run
\* or ended since it was called.
NoCallSinceLogout(i) ==
  /\ loginPc = "idle" /\ loginResult \in {"none", "resolved"} /\ lastLogin = Null
  /\ \A j \in LogoutIds \ {i} : logoutResult[j] = "none"

\* C1: in every reachable state the exposed isAuthenticated flag is true if
\* and only if both user and tokens are present.
IsAuthenticatedIffUserAndTokens ==
  isAuthenticated <=> (user # Null /\ tokens # Null)

\* C1, its case: login() has resolved and the flag is up with both present.
IsAuthenticatedWitness ==
  isAuthenticated /\ user # Null /\ tokens # Null /\ loginResult = "resolved"

\* C2: when the fetch of an invoice load made with the current credential of
\* an authenticated session (login() or restoreSession() has settled) fails
\* with 401 or 403, the load ends with the
\* session unauthenticated (user and tokens absent), the storage entries for
\* tokens and user removed, and no records displayed.
TokenExpiredEndsSession ==
  [][\A i \in LoadIds :
       (/\ LoadStep(i) /\ loadPc'[i] = "idle"
        /\ loadLocal[i].err = "Token expired"
        /\ isAuthenticated /\ loadLocal[i].token = tokens
        /\ loginPc = "idle" /\ restorePc = "done")
       => /\ user' = Null /\ tokens' = Null /\ ~isAuthenticated'
          /\ stTokens' = Absent /\ stUser' = Absent
          /\ invoices' = <<>>]_vars

\* C3: the steps of login() up to the settling of its remote calls write
\* nothing to storage, and when login() settles on a failure of a remote call
\* (the authentication call or the profile fetch: rejected, network error,
\* malformed response) user and tokens are absent and loading is false.
LoginRemoteFailureLeavesNoSession ==
  [][(LoginStep /\ loginPc \in {"idle", "loginApi", "fetchUser"})
       => /\ UNCHANGED <<stTokens, stUser>>
          /\ (loginPc' = "idle"
                => /\ user' = Null /\ tokens' = Null /\ ~isAuthenticated'
                   /\ loading' = FALSE
                   /\ loginResult' \in {"Login failed", "Token expired"})]_vars

\* C3, its case: login() has settled on a remote failure.
LoginRemoteFailureWitness ==
  /\ loginPc = "idle" /\ loginResult \in {"Login failed", "Token expired"}
  /\ user = Null /\ tokens = Null /\ ~loading

RevalidationFailureSettles ==
  /\ RestoreStep
  /\ restorePc \in {"removeTokens", "removeUser"} /\ restorePc' = "done"
  /\ restoreLocal.userData = Null

SessionRoundTrip ==
  [][(/\ RestoreStep /\ restorePc' = "done" /\ restoreResult' = "revalidated"
      /\ lastLogin # Null)
       => /\ isAuthenticated'
          /\ tokens' = lastLogin
          /\ user' = restoreLocal'.userData /\ user' \in Users]_vars

\* C6, its case: a later process has revalidated the session of a login().
SessionRoundTripWitness ==
  /\ restarts >= 1 /\ restorePc = "done" /\ restoreResult = "revalidated"
  /\ lastLogin \in AuthTokens /\ tokens = lastLogin /\ isAuthenticated

\* C7: in every reachable state, under any interleaving of the steps of
\* login, logout and restoreSession, user is present only if tokens are.
UserOnlyWithTokens == user # Null => tokens # Null

\* No session manager operation is in flight.
Quiescent ==
  /\ loginPc = "idle"
  /\ \A i \in LogoutIds : logoutPc[i] = "idle"
  /\ restorePc = "done"

\* C8: whenever no session manager operation is in flight, storage holds
\* both the tokens entry and the user entry or neither.
StoredTogether == Quiescent => (stTokens = Absent <=> stUser = Absent)

\* C9: when the remote calls of login() succeeded and a storage write then
\* fails, login() still resolves and the session stays authenticated with the
\* new tokens and profile.
LoginStorageFailureIsSoft ==
  [][(/\ LoginStep /\ loginPc \in {"setItemTokens", "setItemUser"}
      /\ loginPc' = "idle"
      /\ tokens = loginLocal.authTokens /\ user = loginLocal.userData)
       => /\ loginResult' = "resolved"
          /\ tokens' = tokens /\ user' = user /\ isAuthenticated']_vars

\* C10: in restoreSession(), after a successful revalidation, the settling of
\* the write that refreshes the stored profile, failed or not, leaves the
\* session authenticated with the stored tokens and the fetched profile.
RestoreStorageFailureIsSoft ==
  [][(/\ RestoreStep /\ restorePc = "setItemUser"
      /\ tokens = restoreLocal.parsedTokens /\ user = restoreLocal.userData)
       => /\ tokens' = tokens /\ user' = user /\ isAuthenticated']_vars

\* C11: login() reports every remote failure (rejected credentials, network
\* error, server error, malformed response, failed profile fetch including a
\* 401 or 403 from the profile endpoint) to its caller as one and the same
\* failure value.
LoginFailuresIndistinguishable ==
  [][(LoginStep /\ loginPc \in {"loginApi", "fetchUser"} /\ loginPc' = "idle")
       => loginResult' = "Login failed"]_vars

\* The indices of the records of a collection that have an id, an amount and
\* a status, the amount being a number.
ValidIndices(list) ==
  {k \in 1..Len(list) : /\ list[k].id # Null
                        /\ list[k].status # Null
                        /\ list[k].total_amount_cents.type = "number"}

RECURSIVE SumAmounts(_, _)
\* The sum of the amounts of the records at the indices K
SumAmounts(list, K) ==
  IF K = {} THEN 0
  ELSE LET k == CHOOSE j \in K : TRUE
       IN list[k].total_amount_cents.value + SumAmounts(list, K \ {k})

\* The valid records with one of the statuses
WithStatus(list, statuses) ==
  {k \in ValidIndices(list) : list[k].status \in statuses}

TotalDecomposes ==
  metricsPc # "input"
    => LET others == {k \in ValidIndices(records) :
                        records[k].status \notin {"paid", "unpaid", "pending"}}
       IN /\ metrics.totalRevenue = metrics.outstandingRevenue
                 + metrics.paidRevenue + SumAmounts(records, others)
          /\ (\A k \in ValidIndices(records) :
                 records[k].total_amount_cents.value >= 0)
               => metrics.outstandingRevenue + metrics.paidRevenue
                    <= metrics.totalRevenue

\* C13, its case: a valid record of unrecognized status counts in Total only.
TotalDecomposesWitness ==
  /\ metricsPc = "calculated" /\ Len(records) = 3
  /\ \E k \in ValidIndices(records) : records[k].status = "void"
  /\ \A k \in ValidIndices(records) : records[k].total_amount_cents.value >= 0
  /\ metrics.outstandingRevenue > 0 /\ metrics.paidRevenue > 0
  /\ metrics.totalRevenue > metrics.outstandingRevenue + metrics.paidRevenue

\* The dollar string of an amount of less than 1000 dollars: sign, currency
\* symbol, dollars, point, two digits of cents.
DollarString(cents) ==
  LET abs == IF cents < 0 THEN 0 - cents ELSE cents
  IN (IF cents < 0 THEN "-" ELSE "") \o "$" \o ToString(abs \div 100) \o "."
       \o ToString((abs % 100) \div 10) \o ToString(abs % 10)

\* C14: formatFinancialMetrics maps each of the three cent amounts to a
\* dollar string with the currency symbol and exactly two decimal places,
\* with a minus sign in front for a negative amount: 31500, 15000, 46500
\* give "$315.00", "$150.00", "$465.00", 0 gives "$0.00", and a negative
\* amount gives "-" followed by the string of its absolute value.
MetricsAreFormatted ==
  metricsPc = "formatted"
    => /\ \A f \in {"outstandingRevenue", "paidRevenue", "totalRevenue"} :
            /\ (metrics[f] > -100000 /\ metrics[f] < 100000)
                 => metricsDisplay[f] = DollarString(metrics[f])
            /\ metrics[f] = 0 => metricsDisplay[f] = "$0.00"
            /\ metrics[f] < 0
                 => metricsDisplay[f] = "-" \o formatCurrency(0 - metrics[f])
       /\ metrics = [outstandingRevenue |-> 31500, paidRevenue |-> 15000,
                     totalRevenue |-> 46500]
            => metricsDisplay = [outstandingRevenue |-> "$315.00",
                                 paidRevenue |-> "$150.00",
                                 totalRevenue |-> "$465.00"]

\* C14, its case: the formatted metrics of the records 15000 paid, 8500
\* pending, 23000 unpaid.
MetricsAreFormattedWitness ==
  /\ metricsPc = "formatted"
  /\ records = <<RawInvoice("7", Num(15000), "paid"),
                 RawInvoice("7", Num(8500), "pending"),
                 RawInvoice("7", Num(23000), "unpaid")>>
  /\ metricsDisplay = [outstandingRevenue |-> "$315.00", paidRevenue |-> "$150.00",
                       totalRevenue |-> "$465.00"]

\* C15: a loadInvoiceCache performed before the entry expires returns exactly
\* the collection passed to the saveInvoiceCache that resolved last: the
\* stored entry is at all times that collection, whole, with its expiry at
\* the time of that call plus 5 minutes; reads change neither, and the entry
\* stays in place until that time.
CacheRoundTrip ==
  /\ stCache # Absent
       => /\ lastSave # NoSave
          /\ ParseOk(stCache)
          /\ Parse(stCache).invoices = lastSave[1].invoices
          /\ Parse(stCache).expiresAt = lastSave[1].at + 300000
  /\ (lastSave # NoSave /\ now < lastSave[1].at + 300000)
       => /\ stCache # Absent
          /\ (cacheResult = "returned" /\ ~cacheLocal.logged)
               => cacheRet = Cached(lastSave[1].invoices)

\* C15, its case: a read before expiry has returned the records of a save
\* that was not the first action at time 0.
CacheRoundTripWitness ==
  /\ cacheResult = "returned" /\ ~cacheLocal.logged
  /\ lastSave # NoSave /\ lastSave[1].at > 0 /\ now < lastSave[1].at + 300000
  /\ lastSave[1].invoices # <<>>
  /\ cacheRet = Cached(lastSave[1].invoices)

\* A step in which loadInvoiceCache returns
CacheLoadReturns ==
  cachePc \in {"getItem", "removeItem"} /\ cachePc' = "idle"

\* C16 as stated: loadInvoiceCache returns the stored collection only when
\* the current time is before the expiresAt of the entry; at any other time a
\* read served by the storage returns no cache and deletes the entry.
CacheReturnedOnlyBeforeExpiry ==
  [][(CacheLoadReturns /\ ~cacheLocal'.logged /\ stCache # Absent)
       => IF now < Parse(stCache).expiresAt
            THEN stCache' = stCache
            ELSE cacheRet' = NoCache /\ stCache' = Absent]_vars

\* C16, amended: loadInvoiceCache returns the stored collection only when the
\* current time is not after the expiresAt of the entry (at expiresAt itself
\* it is still returned); at any later time it returns no cache, and it has
\* deleted the entry unless the storage failed, which it logs.
CacheReturnedUntilExpiry ==
  [][/\ (CacheLoadReturns /\ cacheRet' # NoCache)
          => /\ stCache # Absent
             /\ now <= Parse(stCache).expiresAt
             /\ cacheRet' = Cached(Parse(stCache).invoices)
             /\ stCache' = stCache
     /\ (CacheLoadReturns /\ stCache # Absent /\ ~cacheLocal'.logged)
          => IF now <= Parse(stCache).expiresAt
               THEN cacheRet' = Cached(Parse(stCache).invoices)
               ELSE cacheRet' = NoCache /\ stCache' = Absent
     /\ (CacheLoadReturns /\ stCache # Absent /\ now > Parse(stCache).expiresAt)
          => cacheRet' = NoCache /\ stCache' \in {Absent, stCache}]_vars

\* C16, its case: a read after expiry has returned no cache and the entry is
\* gone.
CacheRemovedWitness ==
  /\ cacheResult = "returned" /\ cacheRet = NoCache /\ ~cacheLocal.logged
  /\ lastSave # NoSave /\ now > lastSave[1].at + 300000
  /\ stCache = Absent

\* Load i ends in this step (the process goes on)
LoadEnds(i) ==
  loadPc[i] # "idle" /\ loadPc'[i] = "idle" /\ restarts' = restarts

\* The fetch of load i succeeded
FetchSucceeded(i) == loadLocal[i].cacheData # <<>>

\* C17: in every invoice load whose fetch succeeds, the cache is overwritten
\* with the fetched collection and the load ends with the displayed records
\* equal to the fetched collection.
FetchedIsCachedAndShown ==
  [][\A i \in LoadIds :
       (LoadEnds(i) /\ FetchSucceeded(i) /\ Live(i))
         => /\ stCache' = Stringify(CacheData(loadLocal[i].apiInvoices,
                                              loadLocal[i].cacheData.timestamp))
            /\ invoices' = DisplayOf(loadLocal[i].apiInvoices, now)]_vars

\* The fetch of load i failed and its catch block awaits loadInvoiceCache()
FetchFailed(i) == loadLocal[i].err # Null /\ ~FetchSucceeded(i)

\* The cache key holds an entry that loadInvoiceCache does not take for expired
CacheUsable == stCache # Absent /\ ParseOk(stCache) /\ now <= Parse(stCache).expiresAt

\* The catch block of load i of the mounted screen gets the cached records
\* after a failure of the fetch that is not an authentication failure.
FallsBackToCache(i) ==
  /\ Live(i) /\ FetchFailed(i) /\ loadLocal[i].err # "Token expired"
  /\ CacheUsable
  /\ loadInvoiceCache_getItemSettles(i, TRUE)

NoCacheEndsInError ==
  [][\A i \in LoadIds :
       (/\ Live(i) /\ FetchFailed(i) /\ LoadEnds(i)
        /\ \/ ~CacheUsable
           \/ loadInvoiceCache_getItemSettles(i, FALSE))
         => /\ invoices' = <<>>
            /\ error' = "Unable to load invoices"
            /\ ~isLoading' /\ ~isRefreshing']_vars

\* C19, its case: a load ended with the error while the key holds an expired
\* entry or none.
NoCacheWitness ==
  /\ mounted /\ \A i \in LoadIds : loadPc[i] = "idle"
  /\ invoices = <<>> /\ error = "Unable to load invoices" /\ ~isLoading
  /\ stCache # Absent /\ ~CacheUsable

\* C20: a failed fetch leaves an unexpired entry unchanged: no step of a load
\* whose fetch failed changes an entry that is not expired; the key holds the
\* same records and the same expiry after the step.
FailedFetchKeepsCache ==
  [][\A i \in LoadIds :
       (LoadStep(i) /\ FetchFailed(i) /\ CacheUsable)
         => stCache' = stCache]_vars

\* C21: a storage failure inside saveInvoiceCache after a successful fetch is
\* soft: the load still ends displaying the fetched records and shows no
\* error.
SaveFailureIsSoft ==
  [][\A i \in LoadIds :
       (/\ LoadEnds(i) /\ Live(i) /\ FetchSucceeded(i)
        /\ loadLocal[i].err = "Storage error")
         => /\ invoices' = DisplayOf(loadLocal[i].apiInvoices, now)
            /\ error' = Null]_vars

\* The last cache call was loadInvoiceCache and it has settled
CacheLoadSettled ==
  cachePc = "idle" /\ cacheResult # "none" /\ cacheLocal.cacheData = <<>>

\* C22: a storage failure during loadInvoiceCache (the read fails, the stored
\* text does not parse, the removal of an expired entry fails) is reported to
\* the caller as no cache: the call returns, it never rejects, and what it
\* returns after a failure or from a text that does not parse is null.
LoadCacheFailureIsNoCache ==
  CacheLoadSettled
    => /\ cacheResult = "returned"
       /\ cacheLocal.logged => cacheRet = NoCache
       /\ (stCache # Absent /\ ~ParseOk(stCache))
            => cacheLocal.logged /\ cacheRet = NoCache

\* C22, its case: the stored text did not parse; loadInvoiceCache logged the
\* error and returned null, the text is still there.
LoadCacheFailureWitness ==
  /\ CacheLoadSettled /\ cacheLocal.logged
  /\ stCache = NotJson /\ cacheRet = NoCache

\* C23: fetchInvoices issues exactly one request per call and has exactly
\* three outcomes: the decoded collection for a 2xx response with a decodable
\* body; the failure 'Token expired' if and only if the status is 401 or 403;
\* the failure 'Failed to fetch invoices' for every other non-2xx status, for
\* a network-level failure and for an undecodable body.
FetchInvoicesOutcomes ==
  (apiPc = "settled" /\ apiCall.fn = "fetchInvoices")
    => LET resp == apiResp.resp
           decoded == /\ resp # NetworkError
                      /\ resp.status \in 200..299
                      /\ ParseOk(resp.body)
       IN /\ apiCall.requests = 1
          /\ apiResult.ok <=> decoded
          /\ decoded => apiResult.value = Parse(resp.body)
          /\ ~decoded
               => apiResult.error
                    = (IF resp.status \in {401, 403}
                         THEN "Token expired" ELSE "Failed to fetch invoices")

\* C23, its case: a 403 response has been signalled as 'Token expired'.
FetchInvoicesWitness ==
  /\ apiPc = "settled" /\ apiCall.fn = "fetchInvoices" /\ apiCall.requests = 1
  /\ apiResp.resp.status = 403
  /\ ~apiResult.ok /\ apiResult.error = "Token expired"

\* C30: fetchAuditLogs signals 'Token expired' exactly for a 401/403
\* response, 'Server error' exactly for a status of 500 or above, 'Network
\* error' only for network-level failures, and 'Failed to fetch audit logs'
\* for every other non-2xx response.
AuditErrorsClassified ==
  (apiPc = "settled" /\ apiCall.fn = "fetchAuditLogs")
    => LET resp == apiResp.resp
           e == apiResult.error
       IN /\ e = "Token expired" <=> resp.status \in {401, 403}
          /\ e = "Server error" <=> resp.status >= 500
          /\ e = "Network error" => resp = NetworkError
          /\ (resp # NetworkError /\ resp.status \notin 200..299
              /\ resp.status \notin {401, 403} /\ resp.status < 500)
               => e = "Failed to fetch audit logs"

\* The state of the session state machine a state of the AuthProvider stands
\* for: Restoring while restoreSession revalidates stored credentials,
\* Authenticating while a login is in flight, else by the session held.
SessionState ==
  IF restorePc \in {"fetchUser", "setItemUser", "removeTokens", "removeUser"}
    THEN "Restoring"
  ELSE IF loginPc # "idle" THEN "Authenticating"
  ELSE IF user # Null /\ tokens # Null THEN "Authenticated"
  ELSE "Unauthenticated"

\* The same of the state a step leads to
SessionStateNext ==
  IF restorePc' \in {"fetchUser", "setItemUser", "removeTokens", "removeUser"}
    THEN "Restoring"
  ELSE IF loginPc' # "idle" THEN "Authenticating"
  ELSE IF user' # Null /\ tokens' # Null THEN "Authenticated"
  ELSE "Unauthenticated"

\* The seven transitions, each with what brings it about
ListedTransition ==
  \/ /\ SessionState = "Unauthenticated" /\ SessionStateNext = "Restoring"
     /\ restorePc = "getItemUser" /\ loginResult = "none"
     /\ restoreLocal.storedTokens # Absent /\ stUser # Absent
  \/ /\ SessionState = "Unauthenticated" /\ SessionStateNext = "Authenticating"
     /\ loginPc = "idle"
  \/ /\ SessionState = "Authenticating" /\ SessionStateNext = "Authenticated"
     /\ loginResult' = "resolved"
  \/ /\ SessionState = "Authenticating" /\ SessionStateNext = "Unauthenticated"
     /\ loginResult' \notin {"pending", "resolved"}
  \/ /\ SessionState = "Restoring" /\ SessionStateNext = "Authenticated"
     /\ restoreResult' = "revalidated"
  \/ /\ SessionState = "Restoring" /\ SessionStateNext = "Unauthenticated"
     /\ restoreResult' \in {"cleared", "error logged"}
  \/ /\ SessionState = "Authenticated" /\ SessionStateNext = "Unauthenticated"
     /\ \E i \in LogoutIds : logoutPc[i] = "idle" /\ logoutPc'[i] # "idle"

\* C24: every change of the session state an operation of the AuthProvider
\* makes is one of the seven listed transitions, brought about by what the
\* state machine names for it: Restoring is entered only at process start
\* with both entries stored, Authenticated only on login success or
\* revalidation success, Authenticated is left only by logout(), and a login
\* or a revalidation ends Unauthenticated only by failing.
SessionRefinesStateMachine ==
  [][(restarts' = restarts /\ SessionStateNext # SessionState)
       => ListedTransition]_vars

\* C25: when restoreSession cannot read or parse the stored tokens or user
\* entry, it ends with no session in memory and with both storage keys
\* removed.
UnreadableEntriesAreRemoved ==
  [][(/\ RestoreStep
      /\ restorePc \in {"getItemTokens", "getItemUser"}
      /\ restoreResult' = "error logged")
       => /\ user' = Null /\ tokens' = Null
          /\ stTokens' = Absent /\ stUser' = Absent]_vars

\* C26: when a login that was persisting, or a restoreSession that was
\* revalidating, settles with success after logout() has cleared the session
\* (tokens are absent while the operation is still in flight), and every
\* logout() has resolved without a storage failure, then no session is held
\* and storage holds neither the tokens entry nor the user entry.
LogoutIsDurable ==
  [][(/\ tokens = Null
      /\ \/ LoginStep /\ loginPc' = "idle" /\ loginResult' = "resolved"
         \/ RestoreStep /\ restorePc' = "done" /\ restoreResult' = "revalidated"
      /\ Quiescent'
      /\ \E i \in LogoutIds : logoutResult[i] = "resolved"
      /\ \A i \in LogoutIds : logoutResult[i] \in {"none", "resolved"})
       => /\ user' = Null /\ tokens' = Null
          /\ stTokens' = Absent /\ stUser' = Absent]_vars

\* C27: the records the mounted invoice screen displays are records the
\* invoices endpoint serves to the credential of the current session (or
\* none): after logout() and a new successful login(), no load displays
\* records fetched under the credential of the session before.
DisplayedRecordsAreOfThisSession ==
  (mounted /\ tokens # Null)
    => invoices \in {DisplayOf(list, now) : list \in InvoicesOf(tokens) \cup {<<>>}}

\* C28: when a load whose fetch succeeded settles after a load whose fetch
\* was started later has shown and cached its result, it leaves the
\* displayed records and the cache entry as they are: the earlier-started
\* fetch does not overwrite the newer result.
NewerResultIsKept ==
  [][\A i \in LoadIds :
       (/\ LoadEnds(i) /\ Live(i)
        /\ loadPc[i] = "setItemCache" /\ loadLocal[i].stale)
         => /\ invoices' = invoices
            /\ stCache' = stCache]_vars

\* C29: every login() and every restoreSession() run ends with loading
\* false, whatever the outcomes of its remote and storage calls, and loading
\* is true only while a login() or the restoreSession() is in flight.
LoadingOnlyWhileInFlight ==
  [][/\ (\/ LoginStep /\ loginPc' = "idle"
         \/ RestoreStep /\ restorePc' = "done") => loading' = FALSE
     /\ loading' => (loginPc' # "idle" \/ restorePc' \notin {"mount", "done"})]_vars

\* C29, its case: restoreSession() has ended on a storage failure and a
\* login() on a remote failure, and loading is false.
LoadingWitness ==
  /\ restoreResult = "error logged" /\ restorePc = "done"
  /\ loginResult = "Login failed" /\ loginPc = "idle"
  /\ ~loading

====
